---- MODULE Spec2Model ----
(***************************************************************************)
(* A model of the Trading Data Viewer (src/app.py): the SQLite bar store,  *)
(* the timeframe aggregation queries of aggregate_timeframe_data, the      *)
(* catalog scan of detect_trading_tables and its lru_cache, the            *)
(* thread-local connections of DatabaseManager, health_check, and the      *)
(* request handlers get_data and download_data under the retry loop of     *)
(* handle_db_errors.                                                       *)
(*                                                                         *)
(* Conventions.  A timestamp 'YYYY-MM-DD HH:MM:SS' is the record           *)
(* [d, h, mi, s]; d numbers the calendar dates in order, so that the       *)
(* string order SQLite uses on well-formed timestamps is the order of      *)
(* TsKey.  Prices are integers standing for the REAL values of the         *)
(* columns.  An optional request argument is a set with at most one        *)
(* element ({} is Python's None).  A table name is a tuple of characters.  *)
(***************************************************************************)
EXTENDS Integers, Sequences, FiniteSets, TLC

VARIABLES
    store,              \* the database: table name -> [cols, bars, series]
    aggIn,              \* arguments of the last call of aggregate_timeframe_data
    aggOut,             \* what that call returned: [raised, data]
    connection_count,   \* DatabaseManager._connection_count
    local,              \* thread -> whether DatabaseManager._local.connection is open
    pc,                 \* thread -> where the thread is in its request
    req,                \* thread -> the request it serves
    attempt,            \* thread -> `attempt` of handle_db_errors' loop
    resp,               \* thread -> the response of the request
    log,                \* thread -> what the request has done so far, in order
    cache,              \* the lru_cache of detect_trading_tables: [full, val]
    ret,                \* thread -> what its last call of detect_trading_tables returned
    scan                \* thread -> the scan that call ran, if it ran one

aggVars == <<aggIn, aggOut>>
dbVars == <<connection_count, local>>
reqVars == <<pc, req, attempt, resp, log>>
catVars == <<cache, ret, scan>>
vars == <<store, aggIn, aggOut, connection_count, local, pc, req, attempt, resp, log,
          cache, ret, scan>>

(***************************************************************************)
(* Bounds of the model.                                                    *)
(***************************************************************************)
MaxBars == 3        \* most bars held by a table of the aggregation runs
MaxLimit == 3       \* largest positive limit passed to the aggregation
MaxFaults == 1      \* most 'database is locked' errors raised within one request
OtherWorkers == 10  \* worker threads of the server besides those of Threads

(***************************************************************************)
(* Constants of the program.                                               *)
(***************************************************************************)
MAX_DATA_POINTS == 50000
max_connections == 10
max_retries == 3

(***************************************************************************)
(* SQL values.                                                             *)
(***************************************************************************)
NULL == [kind |-> "null", val |-> 0]
IntVal(n) == [kind |-> "int", val |-> n]
TextVal == [kind |-> "text", val |-> 0]     \* a non-numeric TEXT value

Min2(a, b) == IF a <= b THEN a ELSE b

RECURSIVE SumOver(_, _)
SumOver(S, f) ==
    IF S = {} THEN 0
    ELSE LET x == CHOOSE y \in S : TRUE IN f[x] + SumOver(S \ {x}, f)

\* ORDER BY key ASC over rows whose keys are pairwise different.
RECURSIVE SortBy(_, _)
SortBy(S, key) ==
    IF S = {} THEN <<>>
    ELSE LET x == CHOOSE y \in S : \A z \in S : key[y] <= key[z]
         IN <<x>> \o SortBy(S \ {x}, key)

(***************************************************************************)
(* Timestamps and the SQLite date functions the queries use.               *)
(***************************************************************************)
Ts(d, h, mi, s) == [d |-> d, h |-> h, mi |-> mi, s |-> s]
Days == {1, 2}
Times == { Ts(1, 10, 7, 0), Ts(1, 10, 14, 59), Ts(1, 10, 15, 0), Ts(1, 11, 30, 0),
           Ts(1, 23, 58, 0), Ts(2, 0, 2, 0) }

\* The order of two timestamp strings of the same shape.
TsKey(ts) == ((ts.d * 24 + ts.h) * 60 + ts.mi) * 60 + ts.s

\* f"{start_date} 00:00:00" and f"{end_date} 23:59:59"
StartOfDay(d) == [d |-> d, h |-> 0, mi |-> 0, s |-> 0]
EndOfDay(d) == [d |-> d, h |-> 23, mi |-> 59, s |-> 59]

\* WHERE bar_end_datetime >= ? AND bar_end_datetime <= ?   (or 1=1)
WhereClause(ts, start_date, end_date) ==
    /\ \A sd \in start_date : TsKey(ts) >= TsKey(StartOfDay(sd))
    /\ \A ed \in end_date : TsKey(ts) <= TsKey(EndOfDay(ed))

\* DATE(bar_end_datetime): the date alone, 'YYYY-MM-DD'
SqlDate(ts) == [d |-> ts.d]

\* CAST(strftime('%M', bar_end_datetime) as INTEGER)
StrftimeMinute(ts) == ts.mi

\* printf('%02d', n): the decimal digits of n, at least two of them
Printf02d(n) == IF n < 100 THEN <<n \div 10, n % 10>>
                ELSE <<n \div 100, (n \div 10) % 10, n % 10>>

\* datetime(strftime('%Y-%m-%d %H:', ts) || minute digits || ':00'):
\* NULL when the text is no date-time (a minute field that is not two digits
\* below 60), else the date-time itself.
SqlDatetime(ts, digits) ==
    IF Len(digits) = 2 /\ digits[1] * 10 + digits[2] < 60
    THEN [d |-> ts.d, h |-> ts.h, mi |-> digits[1] * 10 + digits[2], s |-> 0]
    ELSE NULL

MinuteBucketWrong(ts, interval_minutes) ==
    SqlDatetime(ts, Printf02d(StrftimeMinute(ts) \div interval_minutes))

\* The period expression of the minute-based query.
MinuteBucket(ts, interval_minutes) ==
    SqlDatetime(ts, Printf02d((StrftimeMinute(ts) \div interval_minutes) * interval_minutes))

DayBucketWrong(ts) == [d |-> ts.d + (IF ts.h >= 12 THEN 1 ELSE 0)]

\* The period expression of the daily query.
DayBucket(ts) == SqlDate(ts)

\* ORDER BY period ASC: periods of one query have one shape.
PeriodKey(p) == IF DOMAIN p = {"d"} THEN TsKey(StartOfDay(p.d)) ELSE TsKey(p)

(***************************************************************************)
(* aggregate_timeframe_data.                                               *)
(***************************************************************************)
intervals == [tf \in {"1min", "5min", "15min", "30min", "60min", "120min", "240min", "1day"} |->
    CASE tf = "1min" -> 1 [] tf = "5min" -> 5 [] tf = "15min" -> 15 [] tf = "30min" -> 30
      [] tf = "60min" -> 60 [] tf = "120min" -> 120 [] tf = "240min" -> 240 [] tf = "1day" -> 1440]

PeriodOf(ts, interval_minutes) ==
    IF interval_minutes = 1440 THEN DayBucket(ts) ELSE MinuteBucket(ts, interval_minutes)

\* FROM [table] WHERE where_clause
Selected(bars, start_date, end_date) ==
    {b \in bars : WhereClause(b.ts, start_date, end_date)}

\* ROW_NUMBER() OVER (PARTITION BY period ORDER BY bar_end_datetime ASC / DESC)
RnFirst(b, part) == 1 + Cardinality({x \in part : TsKey(x.ts) < TsKey(b.ts)})
RnLastWrong(b, part) == 1 + Cardinality({x \in part : TsKey(x.ts) < TsKey(b.ts)})
RnLast(b, part) == 1 + Cardinality({x \in part : TsKey(x.ts) > TsKey(b.ts)})

\* AVG(CASE WHEN cond THEN col END): the mean of column col over the rows
\* where cond holds, NULL when there is none.
SqlAvg(rows, col) ==
    IF rows = {} THEN NULL
    ELSE IntVal(SumOver(rows, [b \in rows |-> b[col]]) \div Cardinality(rows))

\* MAX(col) and MIN(col) over the rows of a group.
SqlMax(rows, col) == LET vs == {b[col] : b \in rows}
                     IN IntVal(CHOOSE v \in vs : \A w \in vs : w <= v)
SqlMin(rows, col) == LET vs == {b[col] : b \in rows}
                     IN IntVal(CHOOSE v \in vs : \A w \in vs : v <= w)

\* CAST(volume as INTEGER): NULL stays NULL, non-numeric text is 0.
CastInteger(v) == IF v.kind = "null" THEN NULL
                  ELSE IF v.kind = "text" THEN IntVal(0) ELSE v

\* SUM(x): the sum of the non-NULL values, NULL when there is none.
SqlSumVolume(rows) ==
    LET nn == {b \in rows : CastInteger(b.volume).kind # "null"}
    IN IF nn = {} THEN NULL
       ELSE IntVal(SumOver(nn, [b \in nn |-> CastInteger(b.volume).val]))

\* One row of SELECT ... GROUP BY period.
GroupRow(part, p) ==
    [ period |-> p,
      open_price |-> SqlAvg({b \in part : RnFirst(b, part) = 1}, "open"),
      high_price |-> SqlMax(part, "high"),
      low_price |-> SqlMin(part, "low"),
      close_price |-> SqlAvg({b \in part : RnLast(b, part) = 1}, "close"),
      volume |-> SqlSumVolume(part),
      bar_count |-> Cardinality(part) ]

\* GROUP BY period
GroupBy(sel, interval_minutes) ==
    LET periods == {PeriodOf(b.ts, interval_minutes) : b \in sel}
    IN { GroupRow({b \in sel : PeriodOf(b.ts, interval_minutes) = p}, p) : p \in periods }

SqlLimitWrong(rows, limit) == SubSeq(rows, 1, Min2(limit + 1, Len(rows)))

\* LIMIT ? over n rows: how many come out; a negative limit is no limit.
LimitCount(n, limit) == IF limit < 0 THEN n ELSE Min2(limit, n)

\* LIMIT ?
SqlLimit(rows, limit) == SubSeq(rows, 1, LimitCount(Len(rows), limit))

\* The query of either branch: ORDER BY period ASC LIMIT ?
AggregateQuery(bars, interval_minutes, start_date, end_date, limit) ==
    LET grouped == GroupBy(Selected(bars, start_date, end_date), interval_minutes)
    IN SqlLimit(SortBy(grouped, [r \in grouped |-> PeriodKey(r.period)]), limit)

\* float(x) if x else 0, and int(x) if x else 0
PyNumberOrZero(v) == IF v.kind = "null" \/ v.val = 0 THEN 0 ELSE v.val

\* The dict built from one row.
DataPoint(row) ==
    [ datetime |-> row.period,
      open |-> PyNumberOrZero(row.open_price),
      high |-> PyNumberOrZero(row.high_price),
      low |-> PyNumberOrZero(row.low_price),
      close |-> PyNumberOrZero(row.close_price),
      volume |-> PyNumberOrZero(row.volume),
      bar_count |-> row.bar_count ]

\* aggregate_timeframe_data on a table holding `bars`: ValueError for a
\* timeframe that is no key of intervals, else the list of data points.
aggregate_timeframe_data(bars, timeframe, start_date, end_date, limit) ==
    IF timeframe \notin DOMAIN intervals
    THEN [raised |-> "ValueError", data |-> <<>>]
    ELSE LET rows == AggregateQuery(bars, intervals[timeframe], start_date, end_date, limit)
         IN [raised |-> "none", data |-> [i \in 1..Len(rows) |-> DataPoint(rows[i])]]

(***************************************************************************)
(* The aggregation runs: a table of at most MaxBars uniquely-timestamped   *)
(* bars, and calls of aggregate_timeframe_data on it.                      *)
(***************************************************************************)
Payloads ==
    { [open |-> 10, high |-> 12, low |-> 9, close |-> 11, volume |-> IntVal(5)],
      [open |-> 11, high |-> 13, low |-> 10, close |-> 12, volume |-> NULL],
      [open |-> 12, high |-> 14, low |-> 8, close |-> 9, volume |-> TextVal] }

Bar(ts, p) == [ts |-> ts, open |-> p.open, high |-> p.high, low |-> p.low,
               close |-> p.close, volume |-> p.volume]

AllBars == {Bar(ts, p) : ts \in Times, p \in Payloads}

\* The rows of a table.  A table is written [cols, bars, series]: its column
\* names, rows given one by one, and the length of a run of one-minute bars
\* (from 00:00 of day 1) kept as its length, so that a table longer than
\* MAX_DATA_POINTS fits in a state.
MinuteTs(i) == Ts(1 + i \div 1440, (i \div 60) % 24, i % 60, 0)
SeriesBar(i) == Bar(MinuteTs(i), [open |-> 10, high |-> 12, low |-> 9, close |-> 11,
                                  volume |-> IntVal(5)])
Rows(tbl) == IF tbl.series = 0 THEN tbl.bars
             ELSE tbl.bars \cup {SeriesBar(i) : i \in 0..(tbl.series - 1)}
Table(cols, bars) == [cols |-> cols, bars |-> bars, series |-> 0]

UniqueTs(bars) == \A a \in bars, b \in bars : a.ts = b.ts => a = b

RECURSIVE BarSets(_)
BarSets(n) ==
    IF n = 0 THEN {{}}
    ELSE LET smaller == BarSets(n - 1)
         IN smaller \cup { s \cup {b} : s \in {x \in smaller : Cardinality(x) = n - 1},
                                        b \in AllBars }

Tables == {bars \in BarSets(MaxBars) : UniqueTs(bars)}

BarColumns == {"bar_end_datetime", "open_price", "high_price", "low_price",
               "close_price", "volume"}

EsBars == <<"e", "s", "_", "b", "a", "r", "s">>

Timeframes == DOMAIN intervals \cup {"7min"}
DateArgs == { <<{}, {}>>, <<{2}, {}>>, <<{}, {1}>> }    \* (start_date, end_date)
Limits == {-1, 0} \cup 1..MaxLimit

NoCall == [table_name |-> <<>>, timeframe |-> "", start_date |-> {}, end_date |-> {}, limit |-> 0]
NoResult == [raised |-> "", data |-> <<>>]

(***************************************************************************)
(* DatabaseManager: one connection per thread, counted.                    *)
(***************************************************************************)
Threads == {"t1", "t2"}

InitManager ==
    /\ connection_count = 0
    /\ local = [t \in Threads |-> FALSE]

get_connection_unbounded(t) ==
    IF local[t]
    THEN [raised |-> "none", count |-> connection_count, open |-> TRUE]
    ELSE [raised |-> "none", count |-> connection_count + 1, open |-> TRUE]

\* get_connection up to its yield, for thread t: the thread's connection if
\* it has one; else ConnectionError at the ceiling; else a slot is taken and
\* a connection opened.  [raised, count, open] is what it leaves behind.
get_connection(t) ==
    IF local[t]
    THEN [raised |-> "none", count |-> connection_count, open |-> TRUE]
    ELSE IF connection_count >= max_connections
         THEN [raised |-> "ConnectionError", count |-> connection_count, open |-> FALSE]
         ELSE [raised |-> "none", count |-> connection_count + 1, open |-> TRUE]

\* _close_connection, which get_connection calls when the body of the
\* with-statement raised.
close_connection(c) ==
    IF c.open
    THEN [c EXCEPT !.count = IF c.count - 1 < 0 THEN 0 ELSE c.count - 1, !.open = FALSE]
    ELSE c

(***************************************************************************)
(* Requests.                                                               *)
(***************************************************************************)
SavedDrawings == <<"s", "a", "v", "e", "d", "_", "d", "r", "a", "w", "i", "n", "g", "s">>
NqBars == <<"n", "q", "_", "b", "a", "r", "s">>
YmBars == <<"y", "m", "-", "1">>
Injection == <<"e", "s", "]", ";", "-", "-">>
Separators == <<"_", "-">>

AlnumChars == {"a", "b", "d", "e", "g", "i", "m", "n", "q", "r", "s", "t", "v", "w", "y", "1"}

IsSeparator(c) == c \in {"_", "-"}
NotSeparator(c) == ~IsSeparator(c)

NameFormatOkWrong(table_name) == Len(table_name) > 0

\* table_name.replace('_', '').replace('-', '').isalnum()
NameFormatOk(table_name) ==
    LET stripped == SelectSeq(table_name, NotSeparator)
    IN /\ Len(stripped) > 0
       /\ \A i \in DOMAIN stripped : stripped[i] \in AlnumChars

\* request.args.get('format', 'csv').lower()
PyLower(f) == IF f = "JSON" THEN "json" ELSE f

\* int(request.args.get('limit', MAX_DATA_POINTS))
ParseLimit(arg) ==
    IF arg = {} THEN [raised |-> "none", val |-> MAX_DATA_POINTS]
    ELSE LET a == CHOOSE x \in arg : TRUE
         IN IF a.kind = "int" THEN [raised |-> "none", val |-> a.val]
            ELSE [raised |-> "ValueError", val |-> 0]


\* min(int(...), MAX_DATA_POINTS)
ClampLimit(n) == Min2(n, MAX_DATA_POINTS)

QueryModeWrong(timeframe) == IF timeframe \in DOMAIN intervals THEN "aggregate" ELSE "raw"

\* Which branch serves a timeframe: the raw query, the aggregation, or the
\* aggregation's ValueError for a timeframe that is no key of intervals.
QueryMode(timeframe) ==
    IF timeframe = "raw" THEN "raw"
    ELSE IF timeframe \in DOMAIN intervals THEN "aggregate" ELSE "invalid"

\* The columns a statement names: the raw query of get_data and both
\* aggregation queries name all six; download_data's raw query is
\* SELECT * ... ORDER BY bar_end_datetime.
ColumnsNamed(endpoint, timeframe) ==
    IF endpoint = "download_data" /\ QueryMode(timeframe) = "raw"
    THEN {"bar_end_datetime"}
    ELSE BarColumns

\* len(aggregate_timeframe_data(...)) for a supported timeframe: the number
\* of periods, cut by LIMIT.
AggregateLen(bars, timeframe, start_date, end_date, limit) ==
    LimitCount(Cardinality({PeriodOf(b.ts, intervals[timeframe]) :
                              b \in Selected(bars, start_date, end_date)}), limit)

\* The number of rows of the raw queries.
RawLen(bars, start_date, end_date, limit) ==
    LimitCount(Cardinality(Selected(bars, start_date, end_date)), limit)

Ev(e) == [ev |-> e, n |-> 0]
Sleep(n) == [ev |-> "sleep", n |-> n]     \* time.sleep(0.1 * n)

NoRequest == [endpoint |-> "", table_name |-> <<>>, timeframe |-> "", start_date |-> {},
              end_date |-> {}, limit |-> {}, format |-> ""]
NoResponse == [status |-> 0, nrows |-> 0, src |-> {}]
Response(status, nrows, src) == [status |-> status, nrows |-> nrows, src |-> src]

InitThreads ==
    /\ pc = [t \in Threads |-> "idle"]
    /\ req = [t \in Threads |-> NoRequest]
    /\ attempt = [t \in Threads |-> 0]
    /\ resp = [t \in Threads |-> NoResponse]
    /\ log = [t \in Threads |-> <<>>]

Locked(t) == Cardinality({i \in DOMAIN log[t] : log[t][i].ev = "locked"})

\* What a store access can do: succeed, or raise sqlite3.OperationalError
\* 'database is locked'.
Outcomes(t) == IF Locked(t) < MaxFaults THEN {"ok", "locked"} ELSE {"ok"}

\* The handler returns a response.
Return(t, response, lg) ==
    /\ pc' = [pc EXCEPT ![t] = "done"]
    /\ resp' = [resp EXCEPT ![t] = response]
    /\ log' = [log EXCEPT ![t] = lg]
    /\ UNCHANGED <<req, attempt>>

\* time.sleep(0.1 * (attempt + 1)); continue
Retry(t, lg) ==
    /\ pc' = [pc EXCEPT ![t] = "call"]
    /\ attempt' = [attempt EXCEPT ![t] = attempt[t] + 1]
    /\ log' = [log EXCEPT ![t] = Append(lg, Sleep(attempt[t] + 1))]
    /\ UNCHANGED <<req, resp>>

\* handle_db_errors: the handler raised exc.
Raise(t, exc, lg) ==
    IF exc = "locked"
    THEN IF attempt[t] < max_retries - 1
         THEN Retry(t, lg)
         ELSE Return(t, Response(500, 0, {}), lg)
    ELSE IF exc \in {"OperationalError", "FileNotFoundError"}
         THEN Return(t, Response(500, 0, {}), lg)
         ELSE IF attempt[t] < max_retries - 1
              THEN Retry(t, lg)
              ELSE Return(t, Response(500, 0, {}), lg)

SetManager(c, t) ==
    /\ connection_count' = c.count
    /\ local' = [local EXCEPT ![t] = c.open]

Goto(t, label, lg) ==
    /\ pc' = [pc EXCEPT ![t] = label]
    /\ log' = [log EXCEPT ![t] = lg]
    /\ UNCHANGED <<req, attempt, resp>>

\* A request arrives on thread t.
StartRequest(t, r) ==
    /\ pc[t] = "idle"
    /\ pc' = [pc EXCEPT ![t] = "call"]
    /\ req' = [req EXCEPT ![t] = r]
    /\ attempt' = [attempt EXCEPT ![t] = 0]
    /\ resp' = [resp EXCEPT ![t] = NoResponse]
    /\ log' = [log EXCEPT ![t] = <<>>]
    /\ UNCHANGED <<store, aggVars, dbVars, catVars>>

\* f(*args, **kwargs) is entered: the checks made before the store is used.
\* get_data checks the name; download_data checks the name and the format
\* and parses the limit.
HandlerEntry(t) ==
    /\ pc[t] = "call"
    /\ LET r == req[t]
           lg == Append(log[t], Ev("handler"))
       IN IF ~NameFormatOk(r.table_name)
          THEN Return(t, Response(400, 0, {}), lg)
          ELSE IF r.endpoint = "download_data" /\ PyLower(r.format) \notin {"csv", "json"}
          THEN Return(t, Response(400, 0, {}), lg)
          ELSE IF r.endpoint = "download_data" /\ ParseLimit(r.limit).raised # "none"
          THEN Raise(t, ParseLimit(r.limit).raised, lg)
          ELSE Goto(t, "exists", lg)
    /\ UNCHANGED <<store, aggVars, dbVars, catVars>>

\* with db_manager.get_connection() as conn: SELECT name FROM sqlite_master
\* WHERE type='table' AND name=? LIMIT 1
ExistsCheck(t) ==
    /\ pc[t] = "exists"
    /\ \E f \in Outcomes(t) :
        LET r == req[t]
            c == get_connection(t)
            lg == Append(log[t], Ev("get_connection"))
        IN IF c.raised # "none"
           THEN Raise(t, c.raised, log[t]) /\ UNCHANGED dbVars
           ELSE IF f = "locked"
           THEN Raise(t, "locked", Append(lg, Ev("locked"))) /\ SetManager(close_connection(c), t)
           ELSE IF r.table_name \notin DOMAIN store
           THEN Return(t, Response(404, 0, {}), Append(lg, Ev("select_master")))
                /\ SetManager(c, t)
           ELSE Goto(t, "data", Append(lg, Ev("select_master"))) /\ SetManager(c, t)
    /\ UNCHANGED <<store, aggVars, catVars>>

\* The rest of the handler: get_data parses the limit; then the try block,
\* whose except clause answers 500 for whatever is raised inside it: the raw
\* query, or aggregate_timeframe_data (ValueError for a timeframe that is no
\* key of intervals, before its query).
DataStep(t) ==
    /\ pc[t] = "data"
    /\ \E f \in Outcomes(t) :
        LET r == req[t]
            parsed == ParseLimit(r.limit)
            limit == ClampLimit(parsed.val)
            c == get_connection(t)
            lg == Append(log[t], Ev("get_connection"))
            tbl == store[r.table_name]
        IN IF r.endpoint = "get_data" /\ parsed.raised # "none"
           THEN Raise(t, parsed.raised, log[t]) /\ UNCHANGED dbVars
           ELSE IF QueryMode(r.timeframe) = "invalid"
           THEN Return(t, Response(500, 0, {}), Append(log[t], Ev("unsupported_timeframe")))
                /\ UNCHANGED dbVars
           ELSE IF c.raised # "none"
           THEN Return(t, Response(500, 0, {}), log[t]) /\ UNCHANGED dbVars
           ELSE IF f = "locked"
           THEN Return(t, Response(500, 0, {}), Append(lg, Ev("locked")))
                /\ SetManager(close_connection(c), t)
           ELSE IF ~(ColumnsNamed(r.endpoint, r.timeframe) \subseteq tbl.cols)
           THEN Return(t, Response(500, 0, {}), Append(lg, Ev("no_such_column")))
                /\ SetManager(close_connection(c), t)
           ELSE Return(t, Response(200,
                           IF QueryMode(r.timeframe) = "raw"
                           THEN RawLen(Rows(tbl), r.start_date, r.end_date, limit)
                           ELSE AggregateLen(Rows(tbl), r.timeframe, r.start_date, r.end_date, limit),
                           {r.table_name}),
                       Append(lg, Ev("select_table")))
                /\ SetManager(c, t)
    /\ UNCHANGED <<store, aggVars, catVars>>

\* The response is sent; the thread waits for its next request.
Reset(t) ==
    /\ pc[t] = "done"
    /\ pc' = [pc EXCEPT ![t] = "idle"]
    /\ req' = [req EXCEPT ![t] = NoRequest]
    /\ attempt' = [attempt EXCEPT ![t] = 0]
    /\ resp' = [resp EXCEPT ![t] = NoResponse]
    /\ log' = [log EXCEPT ![t] = <<>>]
    /\ UNCHANGED <<store, aggVars, dbVars, catVars>>

(***************************************************************************)
(* health_check, and the threads of the server.                            *)
(***************************************************************************)
\* get_connection up to its yield when sqlite3.connect or one of the PRAGMA
\* statements may raise: the exception is logged and raised again, the slot
\* taken under the lock stays taken and no connection is set.
get_connection_via(t, connect) ==
    IF local[t] \/ connection_count >= max_connections \/ connect = "ok"
    THEN get_connection(t)
    ELSE [raised |-> "OperationalError", count |-> connection_count + 1, open |-> FALSE]

\* GET /health: the connection and one query on sqlite_master; whatever is
\* raised is answered 503.  The handler is not wrapped by handle_db_errors.
health_check(t) ==
    /\ pc[t] = "idle"
    /\ \E connect \in {"ok", "fails"}, f \in {"ok", "locked"} :
        LET c == get_connection_via(t, connect)
        IN IF c.raised # "none"
           THEN /\ SetManager(c, t)
                /\ resp' = [resp EXCEPT ![t] = Response(503, 0, {})]
                /\ log' = [log EXCEPT ![t] = <<Ev(c.raised)>>]
           ELSE IF f = "locked"
           THEN /\ SetManager(close_connection(c), t)
                /\ resp' = [resp EXCEPT ![t] = Response(503, 0, {})]
                /\ log' = [log EXCEPT ![t] = <<Ev("get_connection"), Ev("locked")>>]
           ELSE /\ SetManager(c, t)
                /\ resp' = [resp EXCEPT ![t] = Response(200, 0, {})]
                /\ log' = [log EXCEPT ![t] = <<Ev("get_connection"), Ev("select_master")>>]
    /\ UNCHANGED <<store, aggVars, pc, req, attempt, catVars>>

\* The server run by app.run(threaded=True) serves each request on a thread
\* of its own.  The thread ends after its request: its thread-local
\* connection goes with it, and nothing gives its slot back.  The name t then
\* stands for the next thread.
ThreadEnd(t) ==
    /\ pc[t] = "idle"
    /\ local[t]
    /\ local' = [local EXCEPT ![t] = FALSE]
    /\ resp' = [resp EXCEPT ![t] = NoResponse]
    /\ log' = [log EXCEPT ![t] = <<>>]
    /\ UNCHANGED <<store, aggVars, connection_count, pc, req, attempt, catVars>>

(***************************************************************************)
(* detect_trading_tables.                                                  *)
(***************************************************************************)
EsData == <<"e", "s", "_", "d", "a", "t", "a">>
BarsNq == <<"b", "a", "r", "s", "_", "n", "q">>

\* Characters in the order of their code points.
Alphabet == <<"-", "1", "A", "B", "D", "E", "N", "Q", "R", "S", "T", "_",
              "a", "b", "d", "e", "n", "q", "r", "s", "t">>
Code(c) == CHOOSE i \in DOMAIN Alphabet : Alphabet[i] = c

\* The order of str: by code point, a proper prefix first.
RECURSIVE StrLess(_, _)
StrLess(a, b) ==
    IF b = <<>> THEN FALSE
    ELSE IF a = <<>> THEN TRUE
    ELSE IF a[1] # b[1] THEN Code(a[1]) < Code(b[1])
    ELSE StrLess(Tail(a), Tail(b))

\* str.replace(old, ''): every occurrence of old, left to right, removed.
RECURSIVE Remove(_, _)
Remove(str, old) ==
    IF Len(str) < Len(old) THEN str
    ELSE IF SubSeq(str, 1, Len(old)) = old
         THEN Remove(SubSeq(str, Len(old) + 1, Len(str)), old)
         ELSE <<str[1]>> \o Remove(Tail(str), old)

\* str.upper(), character by character.
UpperChar(c) ==
    CASE c = "a" -> "A" [] c = "b" -> "B" [] c = "d" -> "D" [] c = "e" -> "E"
      [] c = "n" -> "N" [] c = "q" -> "Q" [] c = "r" -> "R" [] c = "s" -> "S"
      [] c = "t" -> "T" [] OTHER -> c
Upper(str) == [i \in DOMAIN str |-> UpperChar(str[i])]

\* table_name.replace('_bars', '').replace('_data', '').replace('bars_', '').upper()
Instrument(table_name) ==
    Upper(Remove(Remove(Remove(table_name, <<"_", "b", "a", "r", "s">>),
                        <<"_", "d", "a", "t", "a">>),
                 <<"b", "a", "r", "s", "_">>))

\* col[1].lower() for the column names of the tables.
ColumnLower(c) ==
    CASE c = "BAR_END_DATETIME" -> "bar_end_datetime" [] c = "Open_Price" -> "open_price"
      [] c = "HIGH_PRICE" -> "high_price" [] c = "LOW_PRICE" -> "low_price"
      [] c = "Close_Price" -> "close_price" [] c = "VOLUME" -> "volume"
      [] OTHER -> c

required_columns_wrong == {"bar_end_datetime", "open_price", "high_price", "low_price",
                           "close_price", "volume"}

required_columns == {"bar_end_datetime", "open_price", "high_price", "low_price", "close_price"}

\* SELECT COUNT(*), MIN(bar_end_datetime), MAX(bar_end_datetime) FROM [table]
TableMeta(tbl) ==
    LET rows == Rows(tbl)
    IN [ count |-> Cardinality(rows),
         min_date |-> IF rows = {} THEN NULL
                      ELSE (CHOOSE b \in rows : \A x \in rows : TsKey(b.ts) <= TsKey(x.ts)).ts,
         max_date |-> IF rows = {} THEN NULL
                      ELSE (CHOOSE b \in rows : \A x \in rows : TsKey(b.ts) >= TsKey(x.ts)).ts ]

\* not (not result or result['count'] == 0)
HasData(meta) == meta.count # 0

\* The body of the loop for one table: whether it is appended.
IsTradingTable(tbl) ==
    /\ required_columns \subseteq {ColumnLower(c) : c \in tbl.cols}
    /\ HasData(TableMeta(tbl))

\* The dict appended for a table.  display_name is the instrument with the
\* two dates of the range (min_date and max_date are timestamps here).
Descriptor(table_name, tbl) ==
    LET meta == TableMeta(tbl)
    IN [ table_name |-> table_name,
         instrument |-> Instrument(table_name),
         record_count |-> meta.count,
         date_range |-> [start |-> meta.min_date, end |-> meta.max_date],
         display_name |-> [instrument |-> Instrument(table_name),
                           start |-> SqlDate(meta.min_date), end |-> SqlDate(meta.max_date)] ]

\* trading_tables.sort(key=lambda x: x['instrument']) over the tables taken
\* in ORDER BY name: a stable sort, so equal instruments stay in name order.
Before(a, b) ==
    \/ StrLess(a.instrument, b.instrument)
    \/ a.instrument = b.instrument /\ StrLess(a.table_name, b.table_name)

SortedDescriptors(ds) ==
    [k \in 1..Cardinality(ds) |->
        CHOOSE e \in ds : Cardinality({x \in ds : Before(x, e)}) = k - 1]

\* The scan of a store in which the inspection of the tables in `broken`
\* raises sqlite3.Error: those are skipped.
ScanResult(st, broken) ==
    SortedDescriptors({Descriptor(n, st[n]) :
                          n \in {m \in DOMAIN st \ broken : IsTradingTable(st[m])}})

NoCache == [full |-> FALSE, val |-> <<>>]
NoReturn == [called |-> FALSE, val |-> <<>>]
NoScan == [ran |-> FALSE, failed |-> FALSE, broken |-> {}, of |-> <<>>]

InitCatalog ==
    /\ cache = NoCache
    /\ ret = [t \in Threads |-> NoReturn]
    /\ scan = [t \in Threads |-> NoScan]

\* detect_trading_tables() is called: lru_cache answers from the cache when
\* it holds the result, else the function body is run.
DetectCall(t) ==
    /\ pc[t] = "idle"
    /\ IF cache.full
       THEN /\ ret' = [ret EXCEPT ![t] = [called |-> TRUE, val |-> cache.val]]
            /\ scan' = [scan EXCEPT ![t] = NoScan]
            /\ UNCHANGED pc
       ELSE /\ pc' = [pc EXCEPT ![t] = "scan"]
            /\ ret' = [ret EXCEPT ![t] = NoReturn]
            /\ scan' = [scan EXCEPT ![t] = NoScan]
    /\ UNCHANGED <<store, aggVars, dbVars, req, attempt, resp, log, cache>>

\* functools.lru_cache once the function has returned: the result is kept
\* under the key unless the key was added while the function ran, and then
\* the entry already there stays.
CachePutWrong(c, result) == [full |-> TRUE, val |-> result]

CachePut(c, result) == IF c.full THEN c ELSE [full |-> TRUE, val |-> result]

\* The function body: the connection, the list of tables, the loop, the
\* sort.  Whatever is raised outside the loop is answered with tuple(); the
\* value returned, either way, is what lru_cache keeps.  f is what the
\* listing of the tables does, broken the tables whose inspection raises.
ScanBody(t, f, broken) ==
    LET c == get_connection(t)
        failed == c.raised # "none" \/ f = "locked"
        result == IF failed THEN <<>> ELSE ScanResult(store, broken)
    IN /\ (failed => broken = {})
       /\ IF c.raised # "none" THEN UNCHANGED dbVars
          ELSE IF f = "locked" THEN SetManager(close_connection(c), t)
          ELSE SetManager(c, t)
       /\ ret' = [ret EXCEPT ![t] = [called |-> TRUE, val |-> result]]
       /\ scan' = [scan EXCEPT ![t] = [ran |-> TRUE, failed |-> failed,
                                       broken |-> broken, of |-> store]]
       /\ cache' = CachePut(cache, result)
       /\ pc' = [pc EXCEPT ![t] = "idle"]
       /\ UNCHANGED <<store, aggVars, req, attempt, resp, log>>

DetectScan(t) ==
    /\ pc[t] = "scan"
    /\ \E f \in {"ok", "locked"}, broken \in SUBSET (DOMAIN store) : ScanBody(t, f, broken)

InitAgg ==
    /\ \E bars \in Tables : store = (EsBars :> Table(BarColumns, bars))
    /\ aggIn = NoCall
    /\ aggOut = NoResult
    /\ InitManager
    /\ InitThreads
    /\ InitCatalog

AggregateCall ==
    \E tf \in Timeframes, dates \in DateArgs, limit \in Limits :
        /\ aggIn = NoCall
        /\ aggIn' = [table_name |-> EsBars, timeframe |-> tf, start_date |-> dates[1],
                     end_date |-> dates[2], limit |-> limit]
        /\ aggOut' = aggregate_timeframe_data(Rows(store[EsBars]), tf, dates[1], dates[2], limit)
        /\ UNCHANGED <<store, dbVars, reqVars, catVars>>

NextAgg == AggregateCall

SpecAgg == InitAgg /\ [][NextAgg]_vars

(***************************************************************************)
(* The request runs: a store of a trading table, a table without           *)
(* close_price and the saved_drawings table; requests served one at a      *)
(* time, by either thread.                                                 *)
(***************************************************************************)
DrawingColumns == {"id", "name", "layout", "instruments", "timeframe", "start_date",
                   "end_date", "drawings_data", "created_at"}

ServedStore ==
    (EsBars :> Table(BarColumns,
                     {Bar(Ts(1, 10, 7, 0), [open |-> 10, high |-> 12, low |-> 9, close |-> 11, volume |-> IntVal(5)]),
                      Bar(Ts(1, 10, 15, 0), [open |-> 11, high |-> 13, low |-> 10, close |-> 12, volume |-> NULL]),
                      Bar(Ts(2, 0, 2, 0), [open |-> 12, high |-> 14, low |-> 8, close |-> 9, volume |-> IntVal(7)])}))
    @@ (NqBars :> Table(BarColumns \ {"close_price"},
                        {[ts |-> Ts(1, 10, 7, 0), open |-> 10, high |-> 12, low |-> 9, volume |-> IntVal(5)],
                         [ts |-> Ts(2, 0, 2, 0), open |-> 11, high |-> 13, low |-> 10, volume |-> NULL]}))
    @@ (EsData :> Table(BarColumns \ {"volume"},
                        {[ts |-> Ts(1, 10, 7, 0), open |-> 10, high |-> 12, low |-> 9, close |-> 11],
                         [ts |-> Ts(1, 10, 15, 0), open |-> 11, high |-> 13, low |-> 10, close |-> 12]}))
    @@ (SavedDrawings :> Table(DrawingColumns, {[id |-> 1], [id |-> 2]}))

TableNames == {EsBars, EsData, NqBars, SavedDrawings, YmBars, Injection, Separators}
RequestTimeframes == {"raw"} \cup Timeframes
LimitArgs == {{}, {TextVal}, {IntVal(-1)}, {IntVal(0)}, {IntVal(2)}, {IntVal(MAX_DATA_POINTS + 1)}}
Formats == {"csv", "JSON", "xml"}

Requests ==
    { [endpoint |-> "get_data", table_name |-> n, timeframe |-> tf, start_date |-> dates[1],
       end_date |-> dates[2], limit |-> l, format |-> ""] :
         n \in TableNames, tf \in RequestTimeframes, dates \in DateArgs, l \in LimitArgs }
    \cup
    { [endpoint |-> "download_data", table_name |-> n, timeframe |-> tf, start_date |-> dates[1],
       end_date |-> dates[2], limit |-> l, format |-> fm] :
         n \in TableNames, tf \in RequestTimeframes, dates \in DateArgs, l \in LimitArgs,
         fm \in Formats }

Init ==
    /\ store = ServedStore
    /\ aggIn = NoCall
    /\ aggOut = NoResult
    /\ InitManager
    /\ InitThreads
    /\ InitCatalog

Arrive(t) ==
    /\ \A u \in Threads : pc[u] = "idle"
    /\ \E r \in Requests : StartRequest(t, r)

Next ==
    \E t \in Threads :
        \/ Arrive(t)
        \/ HandlerEntry(t)
        \/ ExistsCheck(t)
        \/ DataStep(t)
        \/ Reset(t)

Spec == Init /\ [][Next]_vars

(***************************************************************************)
(* The catalog runs: stores of up to three tables, each of one of a few    *)
(* shapes, and calls of detect_trading_tables.                             *)
(***************************************************************************)
UpperColumns == {"BAR_END_DATETIME", "Open_Price", "HIGH_PRICE", "LOW_PRICE", "Close_Price",
                 "VOLUME"}
OneBar == {Bar(Ts(1, 10, 7, 0), [open |-> 10, high |-> 12, low |-> 9, close |-> 11, volume |-> IntVal(5)])}
TwoBars == OneBar \cup
           {Bar(Ts(2, 0, 2, 0), [open |-> 11, high |-> 13, low |-> 10, close |-> 12, volume |-> NULL])}

TableShapes ==
    { Table(BarColumns, TwoBars),
      Table(BarColumns, {}),
      Table(BarColumns \ {"volume"}, OneBar),
      Table(BarColumns \ {"close_price"}, OneBar),
      Table(UpperColumns, OneBar),
      Table(DrawingColumns, OneBar) }

CatalogNames == {EsBars, EsData, BarsNq}

CatalogStores ==
    UNION { [names -> TableShapes] : names \in SUBSET CatalogNames }

InitCat ==
    /\ store \in CatalogStores
    /\ aggIn = NoCall
    /\ aggOut = NoResult
    /\ InitManager
    /\ InitThreads
    /\ InitCatalog

NextCat ==
    \E t \in Threads :
        \/ DetectCall(t)
        \/ DetectScan(t)

SpecCat == InitCat /\ [][NextCat]_vars

(***************************************************************************)
(* The cache runs: calls of detect_trading_tables while tables are created *)
(* and dropped and rows inserted and deleted in the store.                 *)
(***************************************************************************)
CacheNames == {EsBars, EsData}

\* CREATE TABLE: the table is there, with the bar columns and no row.
CreateTable(n) ==
    /\ n \notin DOMAIN store
    /\ store' = (n :> Table(BarColumns, {})) @@ store
    /\ UNCHANGED <<aggVars, dbVars, reqVars, catVars>>

\* DROP TABLE
DropTable(n) ==
    /\ n \in DOMAIN store
    /\ store' = [m \in DOMAIN store \ {n} |-> store[m]]
    /\ UNCHANGED <<aggVars, dbVars, reqVars, catVars>>

\* INSERT of a bar
InsertRow(n) ==
    /\ n \in DOMAIN store
    /\ \E b \in OneBar \ store[n].bars : store' = [store EXCEPT ![n].bars = @ \cup {b}]
    /\ UNCHANGED <<aggVars, dbVars, reqVars, catVars>>

\* DELETE of a bar
DeleteRow(n) ==
    /\ n \in DOMAIN store
    /\ \E b \in store[n].bars : store' = [store EXCEPT ![n].bars = @ \ {b}]
    /\ UNCHANGED <<aggVars, dbVars, reqVars, catVars>>

InitCache ==
    /\ store = (EsBars :> Table(BarColumns, OneBar))
    /\ aggIn = NoCall
    /\ aggOut = NoResult
    /\ InitManager
    /\ InitThreads
    /\ InitCatalog

NextCache ==
    \/ \E t \in Threads :
        \/ DetectCall(t)
        \/ DetectScan(t)
    \/ \E n \in CacheNames :
        \/ CreateTable(n)
        \/ DropTable(n)
        \/ InsertRow(n)
        \/ DeleteRow(n)

SpecCache == InitCache /\ [][NextCache]_vars

(***************************************************************************)
(* The connection runs: health checks served by threads that come and go.  *)
(***************************************************************************)
InitPool ==
    /\ store = ServedStore
    /\ aggIn = NoCall
    /\ aggOut = NoResult
    /\ InitManager
    /\ InitThreads
    /\ InitCatalog

NextPool ==
    \E t \in Threads :
        \/ health_check(t)
        \/ ThreadEnd(t)

SpecPool == InitPool /\ [][NextPool]_vars

(***************************************************************************)
(* The race runs: first calls of detect_trading_tables on two worker       *)
(* threads over a store that does not change and raises nothing, in a      *)
(* server that has OtherWorkers further worker threads (waitress_config:   *)
(* threads = cpu_count * 2).                                               *)
(***************************************************************************)
RaceShapes ==
    { Table(BarColumns, TwoBars),
      Table(BarColumns \ {"volume"}, OneBar),
      Table(BarColumns \ {"close_price"}, OneBar) }

RaceStores == [{EsBars, BarsNq} -> RaceShapes]

\* The connections held by worker threads other than those of Threads.
Others == connection_count - Cardinality({t \in Threads : local[t]})

\* Another worker thread serves its first request that uses the store
\* (GET /health, say): get_connection opens its thread-local connection,
\* which it keeps.
OtherWorker ==
    /\ Others < OtherWorkers
    /\ connection_count < max_connections
    /\ connection_count' = connection_count + 1
    /\ UNCHANGED <<store, aggVars, local, reqVars, catVars>>

\* The function body on a store that raises nothing.
DetectScanHealthy(t) ==
    /\ pc[t] = "scan"
    /\ ScanBody(t, "ok", {})

InitRace ==
    /\ store \in RaceStores
    /\ aggIn = NoCall
    /\ aggOut = NoResult
    /\ InitManager
    /\ InitThreads
    /\ InitCatalog

NextRace ==
    \/ \E t \in Threads :
        \/ DetectCall(t)
        \/ DetectScanHealthy(t)
    \/ OtherWorker

SpecRace == InitRace /\ [][NextRace]_vars

(***************************************************************************)
(* The runs over a long table: one bar a minute, one more than             *)
(* MAX_DATA_POINTS of them.                                                *)
(***************************************************************************)
LongRequests ==
    { r \in Requests :
        /\ r.table_name \in {EsBars, YmBars}
        /\ r.timeframe \in {"raw", "1min", "7min"}
        /\ r.start_date = {} /\ r.end_date = {}
        /\ r.limit \in {{TextVal}, {IntVal(-1)}, {IntVal(MAX_DATA_POINTS + 1)}}
        /\ r.format \in {"", "csv"} }

InitLong ==
    /\ store = (EsBars :> [cols |-> BarColumns, bars |-> {}, series |-> MAX_DATA_POINTS + 1])
    /\ aggIn = NoCall
    /\ aggOut = NoResult
    /\ InitManager
    /\ InitThreads
    /\ InitCatalog

ArriveLong(t) ==
    /\ \A u \in Threads : pc[u] = "idle"
    /\ \E r \in LongRequests : StartRequest(t, r)

NextLong ==
    \E t \in Threads :
        \/ ArriveLong(t)
        \/ HandlerEntry(t)
        \/ ExistsCheck(t)
        \/ DataStep(t)
        \/ Reset(t)

SpecLong == InitLong /\ [][NextLong]_vars

(***************************************************************************)
(* Claims about aggregate_timeframe_data, checked under SpecAgg.  What the *)
(* claims expect is written here from their own words, not with the        *)
(* operators of the model.                                                 *)
(***************************************************************************)
AggReturned == aggIn # NoCall /\ aggOut.raised = "none"
AggData == aggOut.data
AggMinutes == intervals[aggIn.timeframe]
SubDaily == AggReturned /\ aggIn.timeframe # "1day"

\* The bars of the table inside the date range, both ends inclusive.
InRangeBars ==
    {b \in Rows(store[EsBars]) : /\ \A sd \in aggIn.start_date : b.ts.d >= sd
                                /\ \A ed \in aggIn.end_date : b.ts.d <= ed}

\* The bucket start the claims give a bar at ts.
ClaimedBucket(ts) ==
    IF aggIn.timeframe = "1day" THEN [d |-> ts.d]
    ELSE Ts(ts.d, ts.h, ts.mi - (ts.mi % AggMinutes), 0)

BarsOfBucket(p) == {b \in InRangeBars : ClaimedBucket(b.ts) = p}
ClaimedBuckets == {ClaimedBucket(b.ts) : b \in InRangeBars}
Truncated == aggIn.limit >= 0 /\ aggIn.limit < Cardinality(ClaimedBuckets)

\* C1: for a sub-daily timeframe m every output period has seconds 0 and a
\* minute that is a multiple of m, holds exactly the in-range bars whose
\* timestamp, truncated to the hour plus floor(minute / m) * m minutes, is that
\* period, and (unless the limit cut the list) every in-range bar has its
\* bucket in the output.
C1_MinuteBucketing ==
    SubDaily =>
        /\ \A i \in DOMAIN AggData :
              /\ AggData[i].datetime.mi % AggMinutes = 0
              /\ AggData[i].datetime.s = 0
              /\ AggData[i].bar_count = Cardinality(BarsOfBucket(AggData[i].datetime))
              /\ AggData[i].bar_count >= 1
        /\ ~Truncated =>
              \A b \in InRangeBars : \E i \in DOMAIN AggData :
                  AggData[i].datetime = ClaimedBucket(b.ts)

\* C1 witness: with 15min, bars at 10:14:59 and 10:15:00 came out as the two
\* buckets 10:00 and 10:15.
C1_Witness ==
    /\ SubDaily /\ aggIn.timeframe = "15min"
    /\ {b.ts : b \in InRangeBars} = {Ts(1, 10, 14, 59), Ts(1, 10, 15, 0)}
    /\ Len(AggData) = 2
    /\ AggData[1].datetime = Ts(1, 10, 0, 0)
    /\ AggData[2].datetime = Ts(1, 10, 15, 0)

\* C2: for '1day' the output periods are dates, no two rows share a date,
\* each row holds exactly the in-range bars of its date, and the rows are
\* one per distinct date of the in-range bars (as many as the limit lets
\* through).
C2_DailyBucketing ==
    (AggReturned /\ aggIn.timeframe = "1day") =>
        /\ \A i \in DOMAIN AggData :
              /\ DOMAIN AggData[i].datetime = {"d"}
              /\ AggData[i].bar_count =
                    Cardinality({b \in InRangeBars : b.ts.d = AggData[i].datetime.d})
              /\ AggData[i].bar_count >= 1
        /\ \A i, j \in DOMAIN AggData :
              AggData[i].datetime = AggData[j].datetime => i = j
        /\ ~Truncated =>
              {AggData[i].datetime.d : i \in DOMAIN AggData} = {b.ts.d : b \in InRangeBars}
        /\ Truncated => Len(AggData) = aggIn.limit

\* C2 witness: bars at 23:58 of day 1 and 00:02 of day 2 came out as two
\* daily buckets.
C2_Witness ==
    /\ AggReturned /\ aggIn.timeframe = "1day"
    /\ {b.ts : b \in InRangeBars} = {Ts(1, 23, 58, 0), Ts(2, 0, 2, 0)}
    /\ Len(AggData) = 2
    /\ AggData[1].datetime.d = 1 /\ AggData[1].bar_count = 1
    /\ AggData[2].datetime.d = 2 /\ AggData[2].bar_count = 1

VolumeOrZero(b) == IF b.volume.kind = "int" THEN b.volume.val ELSE 0

\* C3: every output bucket has the open of its earliest bar, the close of
\* its latest bar, the largest high, the smallest low, the sum of the
\* volumes (a missing one counting 0) and the number of its bars.
C3_BucketReduction ==
    AggReturned =>
        \A i \in DOMAIN AggData :
            LET part == BarsOfBucket(AggData[i].datetime)
                first == CHOOSE b \in part : \A x \in part : TsKey(b.ts) <= TsKey(x.ts)
                last == CHOOSE b \in part : \A x \in part : TsKey(b.ts) >= TsKey(x.ts)
            IN /\ part # {}
               /\ AggData[i].open = first.open
               /\ AggData[i].close = last.close
               /\ \A b \in part : b.high <= AggData[i].high
               /\ \E b \in part : b.high = AggData[i].high
               /\ \A b \in part : b.low >= AggData[i].low
               /\ \E b \in part : b.low = AggData[i].low
               /\ AggData[i].volume = SumOver(part, [b \in part |-> VolumeOrZero(b)])
               /\ AggData[i].bar_count = Cardinality(part)
               /\ AggData[i].bar_count >= 1

\* C3 witness: a bucket of three bars, one with volume 5, one with no volume
\* and one with a non-numeric volume, came out with volume 5, with an open
\* that only its earliest bar has and a close that only its latest bar has.
C3_Witness ==
    /\ AggReturned
    /\ \E i \in DOMAIN AggData :
          LET part == BarsOfBucket(AggData[i].datetime)
          IN /\ AggData[i].bar_count = 3
             /\ {b.volume.kind : b \in part} = {"int", "null", "text"}
             /\ AggData[i].volume = 5
             /\ Cardinality({b \in part : b.open = AggData[i].open}) = 1
             /\ Cardinality({b \in part : b.close = AggData[i].close}) = 1
             /\ \E b \in part : b.open = AggData[i].open /\ b.close # AggData[i].close

\* C4: for a positive limit L over B non-empty buckets the output holds
\* min(L, B) rows, in strictly ascending period order; they are the earliest
\* buckets, each a bucket of at least one in-range bar and holding all of its
\* in-range bars.
C4_LimitKeepsEarliestBuckets ==
    (AggReturned /\ aggIn.limit > 0) =>
        /\ Len(AggData) = Min2(aggIn.limit, Cardinality(ClaimedBuckets))
        /\ \A i \in DOMAIN AggData :
              /\ AggData[i].datetime \in ClaimedBuckets
              /\ AggData[i].bar_count = Cardinality(BarsOfBucket(AggData[i].datetime))
        /\ \A i, j \in DOMAIN AggData :
              i < j => PeriodKey(AggData[i].datetime) < PeriodKey(AggData[j].datetime)
        /\ \A p \in ClaimedBuckets :
              (\A i \in DOMAIN AggData : AggData[i].datetime # p) =>
                  \A i \in DOMAIN AggData : PeriodKey(AggData[i].datetime) < PeriodKey(p)

\* C4 witness: three buckets, limit 2, and the kept first bucket holds two bars.
C4_Witness ==
    /\ AggReturned /\ aggIn.limit = 2
    /\ Cardinality(ClaimedBuckets) = 3
    /\ Len(AggData) = 2
    /\ AggData[1].bar_count + AggData[2].bar_count < Cardinality(InRangeBars)


\* The model's two accounts of the aggregation agree: the length of the list
\* aggregate_timeframe_data returns is AggregateLen.
AggregateLenAgrees ==
    AggReturned =>
        Len(AggData) = AggregateLen(Rows(store[EsBars]), aggIn.timeframe, aggIn.start_date,
                                    aggIn.end_date, aggIn.limit)

(***************************************************************************)
(* Claims about the request handlers.                                      *)
(***************************************************************************)
Events(t) == {log[t][i].ev : i \in DOMAIN log[t]}
Count(t, e) == Cardinality({i \in DOMAIN log[t] : log[t][i].ev = e})
StoreEvents == {"get_connection", "select_master", "select_table", "locked", "no_such_column"}
Answered(t) == pc[t] = "done"

\* The allow-list of the claims: letters, digits, underscore, hyphen.
AllowListed(name) ==
    /\ name # <<>>
    /\ \A i \in DOMAIN name : name[i] \in AlnumChars \cup {"_", "-"}
    /\ \E i \in DOMAIN name : name[i] \in AlnumChars

SupportedTimeframes == {"1min", "5min", "15min", "30min", "60min", "120min", "240min", "1day"}
BadTimeframe(r) == r.timeframe # "raw" /\ r.timeframe \notin SupportedTimeframes
BadLimit(r) == \E a \in r.limit : a.kind # "int"
BadFormat(r) == r.endpoint = "download_data" /\ r.format \notin {"csv", "CSV", "json", "JSON"}

\* The bar columns a trading table must have.
RequiredBarColumns == {"bar_end_datetime", "open_price", "high_price", "low_price", "close_price"}

\* C5: whatever integer the client gives as limit, a response holds at most
\* MAX_DATA_POINTS rows.
C5_RowsAtMostMax ==
    \A t \in Threads :
        (Answered(t) /\ ~BadLimit(req[t])) => resp[t].nrows <= MAX_DATA_POINTS

\* C6 as claimed: a request with an unsupported timeframe fails its
\* timeframe validation before any operation on the store: no connection
\* acquired, no query executed before it.
C6_ValidationBeforeAnyStoreAccess ==
    \A t \in Threads : \A i \in DOMAIN log[t] :
        log[t][i].ev = "unsupported_timeframe" =>
            \A j \in 1..(i - 1) : log[t][j].ev \notin StoreEvents

\* C6 as amended: a request with an unsupported timeframe never executes a
\* statement on the requested table and returns no rows: when its timeframe
\* validation fails, the connection has been acquired and the sqlite_master
\* existence query executed, and nothing else; the request ends there.
C6_ValidationBeforeTableQuery ==
    \A t \in Threads :
        BadTimeframe(req[t]) =>
            /\ "select_table" \notin Events(t)
            /\ resp[t].nrows = 0 /\ resp[t].src = {}
            /\ \A i \in DOMAIN log[t] :
                  log[t][i].ev = "unsupported_timeframe" =>
                      /\ i = Len(log[t])
                      /\ Answered(t)
                      /\ i > 2
                      /\ log[t][i - 2].ev = "get_connection"
                      /\ log[t][i - 1].ev = "select_master"

\* C6 witness: a get_data request for timeframe 7min on an existing table
\* has failed its timeframe validation.
C6_Witness ==
    \E t \in Threads :
        /\ Answered(t) /\ req[t].timeframe = "7min" /\ req[t].endpoint = "get_data"
        /\ req[t].table_name = EsBars
        /\ log[t] = <<Ev("handler"), Ev("get_connection"), Ev("select_master"),
                      Ev("unsupported_timeframe")>>

\* C7: a request that fails validation (malformed table name, unsupported
\* timeframe, unsupported download format, non-integer limit) is answered 400
\* after exactly one invocation of the handler, never retried, never 500.
\* Stated for requests on which no store access raised and whose table, when
\* the name is well-formed, exists.
C7_ValidationFailuresAnswered400 ==
    \A t \in Threads :
        ( /\ Answered(t)
          /\ "locked" \notin Events(t)
          /\ (AllowListed(req[t].table_name) => req[t].table_name \in DOMAIN store)
          /\ \/ ~AllowListed(req[t].table_name)
             \/ BadTimeframe(req[t])
             \/ BadLimit(req[t])
             \/ BadFormat(req[t]) )
        => /\ resp[t].status = 400
           /\ Count(t, "handler") = 1
           /\ "sleep" \notin Events(t)

\* C8: a statement that interpolates the table name is executed only after,
\* in the same request, the name passed the allow-list check and the
\* sqlite_master existence query found it; a request whose name fails the
\* allow-list is answered 400 with no store access; a request whose table the
\* existence query does not find is answered 404 with no query on the table.
C8_TableNameGates ==
    \A t \in Threads :
        /\ \A i \in DOMAIN log[t] :
              log[t][i].ev = "select_table" =>
                  /\ AllowListed(req[t].table_name)
                  /\ req[t].table_name \in DOMAIN store
                  /\ i > 1 /\ log[t][i - 1].ev = "get_connection"
                  /\ \E j \in 1..(i - 1) :
                        /\ log[t][j].ev = "select_master"
                        /\ \A k \in j..i : log[t][k].ev # "handler"
        /\ resp[t].src # {} => resp[t].src = {req[t].table_name} /\ "select_table" \in Events(t)
        /\ (pc[t] # "idle" /\ ~AllowListed(req[t].table_name)) =>
              /\ Events(t) \cap StoreEvents = {}
              /\ Answered(t) => resp[t].status = 400 /\ log[t] = <<Ev("handler")>>
        /\ (pc[t] # "idle" /\ req[t].table_name \notin DOMAIN store) =>
              /\ "select_table" \notin Events(t)
              /\ (Answered(t) /\ log[t][Len(log[t])].ev = "select_master") => resp[t].status = 404

\* C8 witness: a download of es_bars has been answered 200 with the rows of
\* the table, read after the allow-list check and the existence query.
C8_Witness ==
    \E t \in Threads :
        /\ Answered(t) /\ resp[t].status = 200 /\ resp[t].src = {EsBars} /\ resp[t].nrows = 2
        /\ req[t].endpoint = "download_data"
        /\ log[t] = <<Ev("handler"), Ev("get_connection"), Ev("select_master"),
                      Ev("get_connection"), Ev("select_table")>>

\* C9: no response holds rows read from a table that exists in the store but
\* lacks one of the required bar columns.
C9_NoRowsFromNonTradingTables ==
    \A t \in Threads : \A n \in resp[t].src :
        resp[t].nrows > 0 => RequiredBarColumns \subseteq store[n].cols


(***************************************************************************)
(* Claims about detect_trading_tables, checked under SpecCat.              *)
(***************************************************************************)
Listed(t) == {ret[t].val[i].table_name : i \in DOMAIN ret[t].val}

\* A column set holds a column when it holds its name in some case.
HoldsColumn(cols, name) == \E c \in cols : ColumnLower(c) = name

\* C10: after a scan in which nothing raised, a table is listed if and only
\* if its columns hold bar_end_datetime, open_price, high_price, low_price and
\* close_price (volume or not) and it has at least one row.
C10_ListedIffBarColumnsAndRows ==
    \A t \in Threads :
        (scan[t].ran /\ ~scan[t].failed /\ scan[t].broken = {}) =>
            /\ Listed(t) =
                  { n \in DOMAIN scan[t].of :
                      /\ \A col \in RequiredBarColumns : HoldsColumn(scan[t].of[n].cols, col)
                      /\ Rows(scan[t].of[n]) # {} }
            /\ Len(ret[t].val) = Cardinality(Listed(t))

\* C10 witness: a scan of a table without volume, a table without
\* close_price and an empty table with all the columns listed the first alone.
C10_Witness ==
    \E t \in Threads :
        /\ scan[t].ran /\ ~scan[t].failed /\ scan[t].broken = {}
        /\ DOMAIN scan[t].of = CatalogNames
        /\ scan[t].of[EsBars] = Table(BarColumns \ {"volume"}, OneBar)
        /\ scan[t].of[EsData] = Table(BarColumns \ {"close_price"}, OneBar)
        /\ scan[t].of[BarsNq] = Table(BarColumns, {})
        /\ Listed(t) = {EsBars}


\* C11: once a call of detect_trading_tables has completed, the cache keeps
\* its result whatever is done to the store, and every call made from then
\* on returns that result at once, with no scan and no use of the store.
C11_CachedResultPermanent ==
    [][ cache.full =>
          /\ cache' = cache
          /\ \A t \in Threads :
                DetectCall(t) =>
                    /\ ret'[t] = [called |-> TRUE, val |-> cache.val]
                    /\ ~scan'[t].ran
                    /\ pc'[t] = "idle"
                    /\ UNCHANGED dbVars ]_vars

\* C11 witness: the store no longer holds what the cache lists, a scan begun
\* before the cache was filled has returned something else, and a call has
\* been answered from the cache.
C11_Witness ==
    \E t \in Threads, u \in Threads :
        /\ cache.full /\ cache.val # <<>>
        /\ ret[t].called /\ ~scan[t].ran /\ ret[t].val = cache.val
        /\ scan[u].ran /\ ~scan[u].failed /\ ret[u].val # cache.val
        /\ EsBars \notin DOMAIN store


(***************************************************************************)
(* Claims about DatabaseManager, checked under SpecPool.                   *)
(***************************************************************************)
OpenConnections == {t \in Threads : local[t]}

\* C13: _connection_count never exceeds max_connections, and a thread with
\* no connection of its own that asks for one while the count is at
\* max_connections gets ConnectionError in that very step: it does not wait,
\* no connection is opened and the count stays as it is.
C13_CeilingFailsFast ==
    /\ [](connection_count <= max_connections)
    /\ [][ \A t \in Threads :
              (health_check(t) /\ ~local[t] /\ connection_count = max_connections) =>
                  /\ log'[t] = <<Ev("ConnectionError")>>
                  /\ resp'[t].status = 503
                  /\ ~local'[t]
                  /\ connection_count' = connection_count ]_vars

\* C13 witness: a thread with no connection has been refused at the ceiling
\* while the other thread holds a connection.
C13_Witness ==
    \E t \in Threads, u \in Threads :
        /\ connection_count = max_connections
        /\ ~local[t] /\ log[t] = <<Ev("ConnectionError")>> /\ resp[t].status = 503
        /\ local[u] /\ resp[u].status = 200

\* C15: _connection_count is the number of threads holding an open
\* thread-local connection.
C15_CountIsOpenConnections ==
    connection_count = Cardinality(OpenConnections)


(***************************************************************************)
(* Claims about racing first calls, checked under SpecRace.                *)
(***************************************************************************)
\* C12: with first calls of detect_trading_tables racing over an unchanging
\* store, every call returns the complete scan result, and the cache, once
\* filled, holds it.
C12_RacingFirstCallsComplete ==
    /\ \A t \in Threads : ret[t].called => ret[t].val = ScanResult(store, {})
    /\ cache.full => cache.val = ScanResult(store, {})

\* While a connection slot is left the race is harmless: both scans give the
\* complete result and the cache holds it.
RaceBenignBelowCeiling ==
    connection_count < max_connections => C12_RacingFirstCallsComplete


(***************************************************************************)
(* Further claims about the request handlers, checked under Spec.          *)
(***************************************************************************)
\* C14: a request during which a store access raised 'database is locked'
\* has its handler run again after a wait, whichever access raised it, and is
\* answered 500 only when max_retries attempts have been made.
C14_TransientErrorsRetried ==
    \A t \in Threads :
        /\ \A i \in DOMAIN log[t] :
              (log[t][i].ev = "locked" /\ Count(t, "handler") < max_retries /\ i < Len(log[t]))
                  => log[t][i + 1].ev = "sleep"
        /\ (Answered(t) /\ "locked" \in Events(t) /\ Count(t, "handler") < max_retries)
              => log[t][Len(log[t])].ev # "locked"

\* C17: GET /api/data for a table detect_trading_tables lists, in raw mode or
\* a supported timeframe, with a well-formed limit and no store error, is
\* answered 200.
C17_ListedTablesServed ==
    \A t \in Threads :
        ( /\ Answered(t)
          /\ req[t].endpoint = "get_data"
          /\ req[t].table_name \in DOMAIN store
          /\ IsTradingTable(store[req[t].table_name])
          /\ ~BadTimeframe(req[t])
          /\ ~BadLimit(req[t])
          /\ "locked" \notin Events(t) )
        => resp[t].status = 200


(***************************************************************************)
(* Further claims about detect_trading_tables, checked under SpecCache.    *)
(***************************************************************************)
\* C16: a call of detect_trading_tables whose scan fails at the store level
\* (no connection, or the listing of the tables raises) returns the empty
\* catalog and leaves the cache as it was, so that the next call scans again.
C16_FailedScanNotCached ==
    [][ \A t \in Threads :
          (DetectScan(t) /\ scan'[t].failed) =>
              /\ ret'[t].val = <<>>
              /\ cache' = cache ]_vars

====
